---- MODULE Spec2Model ----
(***************************************************************************)
(* Model of the loose-region quadtree of quadtree.go.                      *)
(*                                                                         *)
(* The tree is a function from node paths (the sequence of child indices   *)
(* leading from the root to the node) to node records carrying the fields  *)
(* of the Quadtree struct.  A path stands for the *Quadtree pointer; a     *)
(* slot Nodes[i] of the node at path p is non-nil iff Append(p, i) is in   *)
(* the domain of the tree.  Each entry of m_Objects is a list.Element: the *)
(* object it holds plus the identity of the element itself, which Update   *)
(* keeps in movedObjects across mutations of the list.  Coordinates are    *)
(* integers chosen so that every halving the code performs is exact.       *)
(***************************************************************************)
EXTENDS Integers, Sequences, FiniteSets, Bags, TLC

VARIABLES qt, box, last, ticks, present, since

vars == <<qt, box, last, ticks, present, since>>

(***************************************************************************)
(* Bounds of the model                                                     *)
(***************************************************************************)
MaxTicks == 1

Objects == {"a", "b", "c"}

Root == << >>

Nil == <<-1>>

B(x, y, w, h) == [X |-> x, Y |-> y, Width |-> w, Height |-> h]

Abs(x) == IF x < 0 THEN -x ELSE x

Half(x) == x \div 2

(***************************************************************************)
(* Geometry primitives                                                     *)
(***************************************************************************)
\* |one.Y - another.Y| < (one.Height + another.Height)/2, both sides doubled
Intersect(one, another) ==
    LET verticalOverlap == 2 * Abs(one.Y - another.Y) < one.Height + another.Height
        horizontalOverlap == 2 * Abs(one.X - another.X) < one.Width + another.Width
    IN  IF one.X = another.X THEN verticalOverlap
        ELSE IF one.Y = another.Y THEN horizontalOverlap
        ELSE verticalOverlap /\ horizontalOverlap

Contains(b, obj) ==
    /\ obj.X >= b.X
    /\ obj.Y >= b.Y
    /\ obj.X + obj.Width <= b.X + b.Width
    /\ obj.Y + obj.Height <= b.Y + b.Height

(***************************************************************************)
(* Bit operations on m_ActiveNodes                                         *)
(***************************************************************************)
Bit(flags, index) == (flags \div (2 ^ index)) % 2 = 1

SetBit(flags, index) == IF Bit(flags, index) THEN flags ELSE flags + 2 ^ index

ClearBit(flags, index) == IF Bit(flags, index) THEN flags - 2 ^ index ELSE flags

\* the indices visited by "for flags > 0 { if flags&1 == 1 {..}; flags >>= 1; index += 1 }"
ActiveIdx(flags) == SelectSeq(<<0, 1, 2, 3>>, LAMBDA i : Bit(flags, i))

(***************************************************************************)
(* Quadrant classification and child bounds                                *)
(***************************************************************************)
subBounds(n, i) ==
    LET b == n.Bounds
    IN  CASE i = 0 -> B(b.X, b.Y, Half(b.Width), Half(b.Height))
          [] i = 1 -> B(b.X + Half(b.Width), b.Y, Half(b.Width), Half(b.Height))
          [] i = 2 -> B(b.X, b.Y + Half(b.Height), Half(b.Width), Half(b.Height))
          [] i = 3 -> B(b.X + Half(b.Width), b.Y + Half(b.Height), Half(b.Width), Half(b.Height))

\* the index computed in Build and in Insert: bottomPart and rightPart
\* compare against qt.Height and qt.Width
Index(n, obj) ==
    LET b == n.Bounds
        horizontalMidpoint == b.X + Half(b.Width)
        verticalMidpoint == b.Y + Half(b.Height)
        topPart == (obj.Y >= b.Y) /\ (obj.Y + obj.Height <= verticalMidpoint)
        bottomPart == (obj.Y >= verticalMidpoint) /\ (obj.Y + obj.Height <= b.Height)
        leftPart == (obj.X >= b.X) /\ (obj.X + obj.Width <= horizontalMidpoint)
        rightPart == (obj.X >= horizontalMidpoint) /\ (obj.X + obj.Width <= b.Width)
    IN  IF topPart
        THEN (IF leftPart THEN 0 ELSE IF rightPart THEN 1 ELSE -1)
        ELSE IF bottomPart
        THEN (IF leftPart THEN 2 ELSE IF rightPart THEN 3 ELSE -1)
        ELSE -1

(***************************************************************************)
(* Lists of elements                                                       *)
(***************************************************************************)
Elem(o, e) == [obj |-> o, ele |-> e]

ObjsOf(l) == [k \in 1..Len(l) |-> l[k].obj]

\* list.PushBack of objects os[1..], element identities taken from next
RECURSIVE PushAll(_, _, _)
PushAll(l, os, next) ==
    IF os = << >> THEN l
    ELSE PushAll(Append(l, Elem(Head(os), next)), Tail(os), next + 1)

\* list.Remove(ele): a no-op unless ele is an element of this list
ListRemove(l, e) == SelectSeq(l, LAMBDA x : x.ele # e)

IsPrefix(p, q) == Len(p) <= Len(q) /\ SubSeq(q, 1, Len(p)) = p

(***************************************************************************)
(* Construction                                                            *)
(***************************************************************************)
CreateQuadtree(bounds, maxObjectsBeforeSplit, maxLevelsToSplit, physicalObjects, next) ==
    [Bounds |-> bounds,
     MaxObjects |-> maxObjectsBeforeSplit,
     MaxLevels |-> maxLevelsToSplit,
     Level |-> 0,
     m_Objects |-> PushAll(<< >>, physicalObjects, next),
     m_ActiveNodes |-> 0,
     m_curLife |-> -1,
     m_maxLifespan |-> 64,
     m_parent |-> Nil]

\* createSubtree that leaves the child at the level CreateQuadtree gives it
createSubtreeAtLevel0(W, p, bounds, physicals) ==
    [CreateQuadtree(bounds, W.T[p].MaxObjects, W.T[p].MaxLevels, physicals, W.next)
        EXCEPT !.m_parent = p]

\* the node createSubtree returns for parent path p
createSubtree(W, p, bounds, physicals) ==
    [CreateQuadtree(bounds, W.T[p].MaxObjects, W.T[p].MaxLevels, physicals, W.next)
        EXCEPT !.Level = W.T[p].Level + 1, !.m_parent = p]

\* qt.Nodes[i] = node: the slot now refers to a fresh node without children
SetNode(W, p, i, node, used) ==
    LET c == Append(p, i)
        keep == {q \in DOMAIN W.T : ~IsPrefix(c, q)}
    IN  [W EXCEPT !.T = [q \in keep \cup {c} |-> IF q = c THEN node ELSE W.T[q]],
                  !.next = W.next + used]

\* canonical element identities: node number * 100 + position in the list
RECURSIVE PathNum(_)
PathNum(p) == IF p = << >> THEN 0 ELSE PathNum(SubSeq(p, 1, Len(p) - 1)) * 5 + p[Len(p)] + 1

Canon(T) ==
    [p \in DOMAIN T |->
        [T[p] EXCEPT !.m_Objects =
            [k \in 1..Len(T[p].m_Objects) |-> Elem(T[p].m_Objects[k].obj, PathNum(p) * 100 + k)]]]

\* an element identity no element of T has
FirstFree(T) ==
    LET used == UNION {{T[p].m_Objects[k].ele : k \in 1..Len(T[p].m_Objects)} : p \in DOMAIN T}
    IN  IF used = {} THEN 1 ELSE 1 + CHOOSE m \in used : \A e \in used : e <= m

\* the heap an operation works on: tree, object geometry, hook calls, next element identity
Work(T, bx) == [T |-> T, box |-> bx, calls |-> [o \in Objects |-> 0], next |-> FirstFree(T)]

(***************************************************************************)
(* Build                                                                   *)
(***************************************************************************)
RECURSIVE Build(_, _), BuildNodes(_, _, _, _)

\* the loop that makes a child of every quadrant, also of one that gets no object
BuildNodesEager(W, p, subtreeObjects, i) ==
    IF i > 3 THEN W
    ELSE LET W1 == SetNode(W, p, i,
                       createSubtree(W, p, subBounds(W.T[p], i), subtreeObjects[i + 1]),
                       Len(subtreeObjects[i + 1]))
             W2 == Build(W1, Append(p, i))
             W3 == [W2 EXCEPT !.T[p].m_ActiveNodes = SetBit(@, i)]
         IN  BuildNodes(W3, p, subtreeObjects, i + 1)

\* the loop "for i, objects := range subtreeObjects", from index i on
BuildNodes(W, p, subtreeObjects, i) ==
    IF i > 3 THEN W
    ELSE IF Len(subtreeObjects[i + 1]) > 0
    THEN LET W1 == SetNode(W, p, i,
                       createSubtree(W, p, subBounds(W.T[p], i), subtreeObjects[i + 1]),
                       Len(subtreeObjects[i + 1]))
             W2 == Build(W1, Append(p, i))
             W3 == [W2 EXCEPT !.T[p].m_ActiveNodes = SetBit(@, i)]
         IN  BuildNodes(W3, p, subtreeObjects, i + 1)
    ELSE BuildNodes(W, p, subtreeObjects, i + 1)

\* Build without the test of the level
BuildAlways(W, p) ==
    LET n == W.T[p]
        kept == SelectSeq(n.m_Objects, LAMBDA x : Index(n, W.box[x.obj]) = -1)
        subtreeObjects ==
            [k \in 1..4 |->
                ObjsOf(SelectSeq(n.m_Objects, LAMBDA x : Index(n, W.box[x.obj]) = k - 1))]
    IN  IF Len(n.m_Objects) <= n.MaxObjects
        THEN W
        ELSE BuildNodes([W EXCEPT !.T[p].m_Objects = kept], p, subtreeObjects, 0)

Build(W, p) ==
    LET n == W.T[p]
        kept == SelectSeq(n.m_Objects, LAMBDA x : Index(n, W.box[x.obj]) = -1)
        subtreeObjects ==
            [k \in 1..4 |->
                ObjsOf(SelectSeq(n.m_Objects, LAMBDA x : Index(n, W.box[x.obj]) = k - 1))]
    IN  IF Len(n.m_Objects) <= n.MaxObjects \/ n.Level >= n.MaxLevels
        THEN W
        ELSE BuildNodes([W EXCEPT !.T[p].m_Objects = kept], p, subtreeObjects, 0)

(***************************************************************************)
(* Insert                                                                  *)
(***************************************************************************)
RECURSIVE Insert(_, _, _)

\* Insert without the PushBack of an object that fits no quadrant
InsertForgetful(W, p, physical) ==
    LET n == W.T[p]
        pushed == [W EXCEPT !.T[p].m_Objects = Append(@, Elem(physical, W.next)),
                            !.next = @ + 1]
        index == Index(n, W.box[physical])
        created == SetNode(W, p, index, createSubtree(W, p, subBounds(n, index), << >>), 0)
    IN  IF n.m_ActiveNodes = 0
        THEN IF Len(pushed.T[p].m_Objects) < n.MaxObjects \/ n.Level = n.MaxLevels
             THEN pushed
             ELSE Build(pushed, p)
        ELSE IF index = -1
        THEN W
        ELSE IF ~Bit(n.m_ActiveNodes, index)
        THEN Insert([created EXCEPT !.T[p].m_ActiveNodes = SetBit(@, index)],
                    Append(p, index), physical)
        ELSE Insert(W, Append(p, index), physical)

\* Insert that puts an object that fits no quadrant at the front of the list
InsertFront(W, p, physical) ==
    LET n == W.T[p]
        pushed == [W EXCEPT !.T[p].m_Objects = Append(@, Elem(physical, W.next)),
                            !.next = @ + 1]
        index == Index(n, W.box[physical])
        created == SetNode(W, p, index, createSubtree(W, p, subBounds(n, index), << >>), 0)
    IN  IF n.m_ActiveNodes = 0
        THEN IF Len(pushed.T[p].m_Objects) < n.MaxObjects \/ n.Level = n.MaxLevels
             THEN pushed
             ELSE Build(pushed, p)
        ELSE IF index = -1
        THEN [W EXCEPT !.T[p].m_Objects = <<Elem(physical, W.next)>> \o @, !.next = @ + 1]
        ELSE IF ~Bit(n.m_ActiveNodes, index)
        THEN Insert([created EXCEPT !.T[p].m_ActiveNodes = SetBit(@, index)],
                    Append(p, index), physical)
        ELSE Insert(W, Append(p, index), physical)

\* Insert that never rebuilds the node it appends to
InsertLeafOnly(W, p, physical) ==
    LET n == W.T[p]
        pushed == [W EXCEPT !.T[p].m_Objects = Append(@, Elem(physical, W.next)),
                            !.next = @ + 1]
        index == Index(n, W.box[physical])
        created == SetNode(W, p, index, createSubtree(W, p, subBounds(n, index), << >>), 0)
    IN  IF n.m_ActiveNodes = 0
        THEN pushed
        ELSE IF index = -1
        THEN pushed
        ELSE IF ~Bit(n.m_ActiveNodes, index)
        THEN Insert([created EXCEPT !.T[p].m_ActiveNodes = SetBit(@, index)],
                    Append(p, index), physical)
        ELSE Insert(W, Append(p, index), physical)

Insert(W, p, physical) ==
    LET n == W.T[p]
        pushed == [W EXCEPT !.T[p].m_Objects = Append(@, Elem(physical, W.next)),
                            !.next = @ + 1]
        index == Index(n, W.box[physical])
        created == SetNode(W, p, index, createSubtree(W, p, subBounds(n, index), << >>), 0)
    IN  IF n.m_ActiveNodes = 0
        THEN IF Len(pushed.T[p].m_Objects) < n.MaxObjects \/ n.Level = n.MaxLevels
             THEN pushed
             ELSE Build(pushed, p)
        ELSE IF index = -1
        THEN pushed
        ELSE IF ~Bit(n.m_ActiveNodes, index)
        THEN Insert([created EXCEPT !.T[p].m_ActiveNodes = SetBit(@, index)],
                    Append(p, index), physical)
        ELSE Insert(W, Append(p, index), physical)

\* the node at which a call of Insert on node p ends: the node of the call that
\* does not pass the object on to a child
RECURSIVE InsertNode(_, _, _, _)
InsertNode(T, bx, p, physical) ==
    LET index == Index(T[p], bx[physical])
    IN  IF T[p].m_ActiveNodes = 0 \/ index = -1 THEN p
        ELSE IF ~Bit(T[p].m_ActiveNodes, index) THEN Append(p, index)
        ELSE InsertNode(T, bx, Append(p, index), physical)

(***************************************************************************)
(* Remove                                                                  *)
(***************************************************************************)
RECURSIVE Remove(_, _, _), RemoveNodes(_, _, _, _)

\* the loop over the active children, idxs being the indices still to visit
RemoveNodes(T, p, target, idxs) ==
    IF idxs = << >> THEN [T |-> T, removed |-> FALSE]
    ELSE LET r == Remove(T, Append(p, Head(idxs)), target)
         IN  IF r.removed THEN r ELSE RemoveNodes(T, p, target, Tail(idxs))

\* Remove that compares the geometry of the objects instead of their identity
RemoveByGeometry(T, p, target) ==
    LET l == T[p].m_Objects
        hits == {k \in 1..Len(l) : box[l[k].obj] = box[target]}
        first == CHOOSE k \in hits : \A j \in hits : k <= j
    IN  IF hits # {}
        THEN [T |-> [T EXCEPT ![p].m_Objects = ListRemove(l, l[first].ele)], removed |-> TRUE]
        ELSE RemoveNodes(T, p, target, ActiveIdx(T[p].m_ActiveNodes))

\* Remove that looks at the list of the node only, not at its children
RemoveHere(T, p, target) ==
    LET l == T[p].m_Objects
        hits == {k \in 1..Len(l) : l[k].obj = target}
        first == CHOOSE k \in hits : \A j \in hits : k <= j
    IN  IF hits # {}
        THEN [T |-> [T EXCEPT ![p].m_Objects = ListRemove(l, l[first].ele)], removed |-> TRUE]
        ELSE [T |-> T, removed |-> FALSE]

\* Remove that starts the countdown of the node it takes the object from
RemoveArming(T, p, target) ==
    LET l == T[p].m_Objects
        hits == {k \in 1..Len(l) : l[k].obj = target}
        first == CHOOSE k \in hits : \A j \in hits : k <= j
    IN  IF hits # {}
        THEN [T |-> [T EXCEPT ![p].m_Objects = ListRemove(l, l[first].ele),
                              ![p].m_curLife = T[p].m_maxLifespan],
              removed |-> TRUE]
        ELSE RemoveNodes(T, p, target, ActiveIdx(T[p].m_ActiveNodes))

Remove(T, p, target) ==
    LET l == T[p].m_Objects
        hits == {k \in 1..Len(l) : l[k].obj = target}
        first == CHOOSE k \in hits : \A j \in hits : k <= j
    IN  IF hits # {}
        THEN [T |-> [T EXCEPT ![p].m_Objects = ListRemove(l, l[first].ele)], removed |-> TRUE]
        ELSE RemoveNodes(T, p, target, ActiveIdx(T[p].m_ActiveNodes))

(***************************************************************************)
(* Walk and FindObject                                                     *)
(***************************************************************************)
RECURSIVE Walk(_, _), WalkNodes(_, _, _)

WalkNodes(T, p, idxs) ==
    IF idxs = << >> THEN << >>
    ELSE Walk(T, Append(p, Head(idxs))) \o WalkNodes(T, p, Tail(idxs))

\* the sequence of objects handed to the walker
Walk(T, p) == ObjsOf(T[p].m_Objects) \o WalkNodes(T, p, ActiveIdx(T[p].m_ActiveNodes))

RECURSIVE FindObject(_, _, _), FindObjectNodes(_, _, _, _)

\* the loop returning what the first active child answers
FindObjectNodesFirst(T, p, target, idxs) ==
    IF idxs = << >> THEN Nil
    ELSE FindObject(T, Append(p, Head(idxs)), target)

FindObjectNodes(T, p, target, idxs) ==
    IF idxs = << >> THEN Nil
    ELSE LET sub == FindObject(T, Append(p, Head(idxs)), target)
         IN  IF sub # Nil THEN sub ELSE FindObjectNodes(T, p, target, Tail(idxs))

FindObject(T, p, target) ==
    IF \E k \in 1..Len(T[p].m_Objects) : T[p].m_Objects[k].obj = target
    THEN p
    ELSE FindObjectNodes(T, p, target, ActiveIdx(T[p].m_ActiveNodes))

(***************************************************************************)
(* Intersection queries                                                    *)
(***************************************************************************)
\* the objects of list l, other than target, that intersect target, in list order
Hits(l, bx, target) ==
    ObjsOf(SelectSeq(l, LAMBDA x : x.obj # target /\ Intersect(bx[target], bx[x.obj])))

RECURSIVE GetIntersectedObjectsRaw(_, _, _, _, _), GetIntersectedObjectsRawNodes(_, _, _, _, _, _)

GetIntersectedObjectsRawNodes(T, bx, p, target, objects, idxs) ==
    IF idxs = << >> THEN objects
    ELSE GetIntersectedObjectsRawNodes(T, bx, p, target,
             GetIntersectedObjectsRaw(T, bx, Append(p, Head(idxs)), target, objects),
             Tail(idxs))

GetIntersectedObjectsRaw(T, bx, p, target, objects) ==
    GetIntersectedObjectsRawNodes(T, bx, p, target,
        objects \o Hits(T[p].m_Objects, bx, target),
        ActiveIdx(T[p].m_ActiveNodes))

\* the loop over the parent chain, starting at node parent
RECURSIVE ParentHits(_, _, _, _)
ParentHits(T, bx, parent, target) ==
    IF parent = Nil THEN << >>
    ELSE Hits(T[parent].m_Objects, bx, target) \o ParentHits(T, bx, T[parent].m_parent, target)

\* GetIntersectedObjects that searches the whole tree for an object FindObject does not find
GetIntersectedObjectsAnywhere(T, bx, target) ==
    LET sub == FindObject(T, Root, target)
    IN  IF sub = Nil THEN GetIntersectedObjectsRaw(T, bx, Root, target, << >>)
        ELSE GetIntersectedObjectsRaw(T, bx, sub, target,
                 ParentHits(T, bx, T[sub].m_parent, target))

GetIntersectedObjects(T, bx, target) ==
    LET sub == FindObject(T, Root, target)
    IN  IF sub = Nil THEN << >>
        ELSE GetIntersectedObjectsRaw(T, bx, sub, target,
                 ParentHits(T, bx, T[sub].m_parent, target))

\* the loop over qt.m_Objects of GetIntersection, l being the elements still to visit;
\* R holds the two lists the callers share
RECURSIVE GetIntersectionObjects(_, _, _)
GetIntersectionObjects(l, bx, R) ==
    IF l = << >> THEN R
    ELSE LET one == Head(l).obj
             found == SelectSeq(R.potentialObjects, LAMBDA objParent : Intersect(bx[objParent], bx[one]))
             records == [k \in 1..Len(found) |-> [One |-> found[k], Another |-> one]]
         IN  GetIntersectionObjects(Tail(l), bx,
                 [intersections |-> R.intersections \o records,
                  potentialObjects |-> Append(R.potentialObjects, one)])

RECURSIVE GetIntersection(_, _, _, _), GetIntersectionNodes(_, _, _, _, _)

\* the loop with the potential objects restored after each child
GetIntersectionNodesRestoring(T, bx, p, R, idxs) ==
    IF idxs = << >> THEN R
    ELSE LET R1 == GetIntersection(T, bx, Append(p, Head(idxs)), R)
         IN  GetIntersectionNodes(T, bx, p,
                 [intersections |-> R1.intersections, potentialObjects |-> R.potentialObjects],
                 Tail(idxs))

GetIntersectionNodes(T, bx, p, R, idxs) ==
    IF idxs = << >> THEN R
    ELSE GetIntersectionNodes(T, bx, p, GetIntersection(T, bx, Append(p, Head(idxs)), R), Tail(idxs))

GetIntersection(T, bx, p, R) ==
    GetIntersectionNodes(T, bx, p, GetIntersectionObjects(T[p].m_Objects, bx, R),
                         ActiveIdx(T[p].m_ActiveNodes))

\* GetIntersection(nil, nil) on the root
Intersections(T, bx) ==
    GetIntersection(T, bx, Root, [intersections |-> << >>, potentialObjects |-> << >>]).intersections

(***************************************************************************)
(* Update                                                                  *)
(***************************************************************************)
\* step 1 of Update that arms the counter of an empty node and never counts it down
LifespanArmed(n) ==
    IF Len(n.m_Objects) = 0
    THEN IF n.m_ActiveNodes = 0 /\ n.m_curLife = -1
         THEN [n EXCEPT !.m_curLife = n.m_maxLifespan - 1]
         ELSE n
    ELSE IF n.m_curLife # -1
         THEN [n EXCEPT !.m_maxLifespan = IF @ <= 64 THEN @ * 2 ELSE @, !.m_curLife = -1]
         ELSE n

\* step 1 of Update that doubles MaxLifespan of every node that holds objects
LifespanDoubling(n) ==
    IF Len(n.m_Objects) = 0
    THEN IF n.m_ActiveNodes = 0
         THEN IF n.m_curLife = -1 THEN [n EXCEPT !.m_curLife = n.m_maxLifespan - 1]
              ELSE IF n.m_curLife > 0 THEN [n EXCEPT !.m_curLife = @ - 1]
              ELSE n
         ELSE n
    ELSE [n EXCEPT !.m_maxLifespan = IF @ <= 64 THEN @ * 2 ELSE @, !.m_curLife = -1]

\* step 1 of Update: the countdown of an empty node, the rescue of a node that holds objects
Lifespan(n) ==
    IF Len(n.m_Objects) = 0
    THEN IF n.m_ActiveNodes = 0
         THEN IF n.m_curLife = -1 THEN [n EXCEPT !.m_curLife = n.m_maxLifespan - 1]
              ELSE IF n.m_curLife > 0 THEN [n EXCEPT !.m_curLife = @ - 1]
              ELSE n
         ELSE n
    ELSE IF n.m_curLife # -1
         THEN [n EXCEPT !.m_maxLifespan = IF @ <= 64 THEN @ * 2 ELSE @, !.m_curLife = -1]
         ELSE n

\* obj.Update(delta) of the objects of elements l, in order: the hook of an object
\* puts it at hook.dst and answers hook.rep
RECURSIVE UpdateObjects(_, _, _)
UpdateObjects(W, l, hook) ==
    IF l = << >> THEN W
    ELSE LET o == Head(l).obj
         IN  UpdateObjects([W EXCEPT !.box[o] = hook.dst[o], !.calls[o] = @ + 1], Tail(l), hook)

\* the node the walk up the parent chain stops at
RECURSIVE Container(_, _, _)
Container(T, b, container) ==
    IF ~Contains(T[container].Bounds, b) /\ T[container].m_parent # Nil
    THEN Container(T, b, T[container].m_parent)
    ELSE container

RECURSIVE MoveObjects(_, _, _)
MoveObjects(W, p, movedObjects) ==
    IF movedObjects = << >> THEN W
    ELSE LET ele == Head(movedObjects)
             container == Container(W.T, W.box[ele.obj], p)
             W1 == [W EXCEPT !.T[p].m_Objects = ListRemove(@, ele.ele)]
         IN  MoveObjects(Insert(W1, container, ele.obj), p, Tail(movedObjects))

\* the pruning loop, idxs being the indices of the active children still to visit
RECURSIVE Prune(_, _, _)

\* the pruning loop without the update of m_ActiveNodes
PruneKeepingBit(T, p, idxs) ==
    IF idxs = << >> THEN T
    ELSE LET c == Append(p, Head(idxs))
             keep == {q \in DOMAIN T : ~IsPrefix(c, q)}
         IN  IF T[c].m_curLife = 0
             THEN Prune([q \in keep |-> T[q]], p, Tail(idxs))
             ELSE Prune(T, p, Tail(idxs))

\* the pruning loop that spares a child that holds an object or has a child
PruneEmptyOnly(T, p, idxs) ==
    IF idxs = << >> THEN T
    ELSE LET c == Append(p, Head(idxs))
             keep == {q \in DOMAIN T : ~IsPrefix(c, q)}
         IN  IF T[c].m_curLife = 0 /\ Len(T[c].m_Objects) = 0 /\ T[c].m_ActiveNodes = 0
             THEN Prune([q \in keep |->
                            IF q = p THEN [T[p] EXCEPT !.m_ActiveNodes = ClearBit(@, Head(idxs))]
                            ELSE T[q]],
                        p, Tail(idxs))
             ELSE Prune(T, p, Tail(idxs))

\* the pruning loop that drops a child as soon as it is empty, whatever its counter
PruneAtOnce(T, p, idxs) ==
    IF idxs = << >> THEN T
    ELSE LET c == Append(p, Head(idxs))
             keep == {q \in DOMAIN T : ~IsPrefix(c, q)}
         IN  IF Len(T[c].m_Objects) = 0 /\ T[c].m_ActiveNodes = 0
             THEN Prune([q \in keep |->
                            IF q = p THEN [T[p] EXCEPT !.m_ActiveNodes = ClearBit(@, Head(idxs))]
                            ELSE T[q]],
                        p, Tail(idxs))
             ELSE Prune(T, p, Tail(idxs))

Prune(T, p, idxs) ==
    IF idxs = << >> THEN T
    ELSE LET c == Append(p, Head(idxs))
             keep == {q \in DOMAIN T : ~IsPrefix(c, q)}
         IN  IF T[c].m_curLife = 0
             THEN Prune([q \in keep |->
                            IF q = p THEN [T[p] EXCEPT !.m_ActiveNodes = ClearBit(@, Head(idxs))]
                            ELSE T[q]],
                        p, Tail(idxs))
             ELSE Prune(T, p, Tail(idxs))

RECURSIVE Update(_, _, _), UpdateNodes(_, _, _, _)

UpdateNodes(W, p, hook, idxs) ==
    IF idxs = << >> THEN W
    ELSE UpdateNodes(Update(W, Append(p, Head(idxs)), hook), p, hook, Tail(idxs))

Update(W, p, hook) ==
    LET W1 == [W EXCEPT !.T[p] = Lifespan(@)]
        l == W1.T[p].m_Objects
        movedObjects == SelectSeq(l, LAMBDA x : hook.rep[x.obj])
        W2 == UpdateObjects(W1, l, hook)
        W3 == UpdateNodes(W2, p, hook, ActiveIdx(W2.T[p].m_ActiveNodes))
        W4 == MoveObjects(W3, p, movedObjects)
    IN  [W4 EXCEPT !.T = Prune(W4.T, p, ActiveIdx(W4.T[p].m_ActiveNodes))]

\* UpdateTree(objects): the tree is rebuilt from a new list
UpdateTree(W, p, objects) ==
    LET keep == {q \in DOMAIN W.T : ~IsPrefix(p, q) \/ q = p}
        T1 == [q \in keep |->
                 IF q = p
                 THEN [W.T[p] EXCEPT !.m_ActiveNodes = 0,
                                     !.m_Objects = PushAll(<< >>, objects, W.next)]
                 ELSE W.T[q]]
    IN  Build([W EXCEPT !.T = T1, !.next = @ + Len(objects)], p)

(***************************************************************************)
(* The program as a state machine.                                         *)
(*   qt       the tree                                                     *)
(*   box      the geometry of every object                                 *)
(*   last     the last public operation and what it returned: the result   *)
(*            of Remove and of Intersect, whether GetIntersectedObjects    *)
(*            returned no object                                           *)
(*   ticks    the number of Update calls so far, counted up to MaxTicks    *)
(*   present  the objects the caller has inserted and not removed          *)
(*   since    for a region that a tick left empty and that nothing was     *)
(*            inserted into since, the number of ticks completed since     *)
(***************************************************************************)
Op(name, ret) == [op |-> name, ret |-> ret]

Stored(T) == {Walk(T, Root)[k] : k \in 1..Len(Walk(T, Root))}

Empty(T, p) == Len(T[p].m_Objects) = 0 /\ T[p].m_ActiveNodes = 0

\* since after a tick that took the tree from T to T2: a region the tick left empty starts
\* at 0 when its MaxLifespan is 64, a region that stayed empty is one tick older
AgeTick(T, s, T2) ==
    [p \in {q \in DOMAIN T2 \cap DOMAIN T :
               /\ Empty(T2, q)
               /\ IF Empty(T, q) THEN q \in DOMAIN s ELSE T2[q].m_maxLifespan = 64} |->
        IF Empty(T, p) THEN s[p] + 1 ELSE 0]

\* since after any other operation, which left the tree T2
AgeKeep(s, T2) == [p \in {q \in DOMAIN s \cap DOMAIN T2 : Empty(T2, q)} |-> s[p]]

\* the world and the boxes the operations are tried on
World == B(0, 0, 8, 8)

Boxes == {B(4, 0, 1, 1), B(6, 2, 1, 1), B(4, 0, 3, 3), B(3, 0, 1, 1)}

\* the argument lists of CreateQuadtree
InitialObjects == {<< >>, <<"a">>, <<"a", "b">>, <<"a", "b", "c">>}

\* the hooks of one tick: at most MaxMovers objects answer true, each put at a box of bs
MaxMovers == 2

Hooks(bs) ==
    {[dst |-> [o \in Objects |-> IF o \in DOMAIN d THEN d[o] ELSE box[o]],
      rep |-> [o \in Objects |-> o \in DOMAIN d]] :
        d \in UNION {[mv -> bs] : mv \in {m \in SUBSET Stored(qt) : Cardinality(m) <= MaxMovers}}}

InitWith(world, geometries, lists, maxObjects, maxLevels) ==
    /\ box \in geometries
    /\ \E objects \in lists, mo \in maxObjects, ml \in maxLevels :
          /\ \A k \in 1..Len(objects) : Contains(world, box[objects[k]])
          /\ qt = Canon([p \in {Root} |-> CreateQuadtree(world, mo, ml, objects, 1)])
          /\ present = {objects[k] : k \in 1..Len(objects)}
    /\ last = Op("CreateQuadtree", FALSE)
    /\ ticks = 0
    /\ since = [p \in {} |-> 0]

DoBuild ==
    /\ qt' = Canon(Build(Work(qt, box), Root).T)
    /\ last' = Op("Build", FALSE)
    /\ since' = AgeKeep(since, qt')
    /\ UNCHANGED <<box, ticks, present>>

DoInsert(physical) ==
    /\ physical \notin present
    /\ Contains(qt[Root].Bounds, box[physical])
    /\ qt' = Canon(Insert(Work(qt, box), Root, physical).T)
    /\ last' = Op("Insert", FALSE)
    /\ present' = present \cup {physical}
    /\ since' = AgeKeep(since, qt')
    /\ UNCHANGED <<box, ticks>>

DoRemove(target) ==
    /\ LET r == Remove(qt, Root, target)
       IN  /\ qt' = Canon(r.T)
           /\ last' = Op("Remove", r.removed)
    /\ present' = present \ {target}
    /\ since' = AgeKeep(since, qt')
    /\ UNCHANGED <<box, ticks>>

DoUpdate(hook) ==
    /\ \E W \in {Update(Work(qt, box), Root, hook)} :
           /\ \E T \in {Canon(W.T)} : qt' = T
           /\ box' = W.box
    /\ last' = Op("Update", FALSE)
    /\ ticks' = IF ticks < MaxTicks THEN ticks + 1 ELSE ticks
    /\ since' = AgeTick(qt, since, qt')
    /\ UNCHANGED present

DoUpdateTree(objects) ==
    /\ \A k \in 1..Len(objects) : Contains(qt[Root].Bounds, box[objects[k]])
    /\ qt' = Canon(UpdateTree(Work(qt, box), Root, objects).T)
    /\ last' = Op("UpdateTree", FALSE)
    /\ present' = {objects[k] : k \in 1..Len(objects)}
    /\ since' = AgeKeep(since, qt')
    /\ UNCHANGED <<box, ticks>>

\* GetIntersectedObjects(target): the call reads the tree and changes nothing; last.ret
\* tells whether it returned no object
DoGetIntersectedObjects(target) ==
    /\ last' = Op("GetIntersectedObjects", GetIntersectedObjects(qt, box, target) = << >>)
    /\ UNCHANGED <<qt, box, ticks, present, since>>

\* Intersect applied to the boxes of two objects
DoIntersect(one, another) ==
    /\ last' = Op("Intersect", Intersect(box[one], box[another]))
    /\ UNCHANGED <<qt, box, ticks, present, since>>

(***************************************************************************)
(* Spec: a world at the origin, at most MaxTicks Update calls              *)
(***************************************************************************)
Init == InitWith(World, [Objects -> Boxes], InitialObjects, {1}, {2})

Next ==
    \/ DoBuild
    \/ \E physical \in Objects : DoInsert(physical)
    \/ \E target \in Objects : DoRemove(target)
    \/ ticks < MaxTicks /\ \E hook \in Hooks(Boxes) : DoUpdate(hook)

Spec == Init /\ [][Next]_vars

(***************************************************************************)
(* SpecNeg: the same operations on a world left of the origin              *)
(***************************************************************************)
NegWorld == B(-8, 0, 8, 8)

NegBoxes == {B(-7, 0, 2, 1), B(-7, 1, 2, 1), B(-8, 0, 1, 1), B(-3, 0, 1, 1)}

InitNeg == InitWith(NegWorld, [Objects -> NegBoxes], InitialObjects, {1}, {2})

NextNeg ==
    \/ DoBuild
    \/ \E physical \in Objects : DoInsert(physical)
    \/ \E target \in Objects : DoRemove(target)
    \/ ticks < MaxTicks /\ \E hook \in Hooks(NegBoxes) : DoUpdate(hook)

SpecNeg == InitNeg /\ [][NextNeg]_vars

(***************************************************************************)
(* SpecOut: SpecNeg with hooks that may put an object across or beyond an  *)
(* edge of the world                                                       *)
(***************************************************************************)
OutBoxes == {B(-1, 0, 2, 1), B(-9, 0, 1, 1), B(-3, 0, 1, 1)}

NextOut ==
    \/ DoBuild
    \/ \E physical \in Objects : DoInsert(physical)
    \/ \E target \in Objects : DoRemove(target)
    \/ ticks < MaxTicks /\ \E hook \in Hooks(OutBoxes) : DoUpdate(hook)

SpecOut == InitNeg /\ [][NextOut]_vars

(***************************************************************************)
(* SpecGeom: Intersect on pairs of boxes                                   *)
(***************************************************************************)
GeomBoxes == {B(x, y, w, h) : x \in 0..2, y \in 0..2, w \in 1..2, h \in 1..2}

InitGeom ==
    /\ box \in {f \in [Objects -> GeomBoxes] : f["c"] = f["a"]}
    /\ qt = Canon([p \in {Root} |-> CreateQuadtree(World, 1, 2, << >>, 1)])
    /\ present = {}
    /\ last = Op("CreateQuadtree", FALSE)
    /\ ticks = 0
    /\ since = [p \in {} |-> 0]

NextGeom == \E one, another \in {"a", "b"} : DoIntersect(one, another)

SpecGeom == InitGeom /\ [][NextGeom]_vars

(***************************************************************************)
(* SpecLife: objects a and b come and go at one place while c stays where  *)
(* it is; nothing moves, and the number of Update calls is not limited     *)
(***************************************************************************)
LifeGeometry == [o \in Objects |-> IF o = "c" THEN B(4, 0, 1, 1) ELSE B(0, 0, 1, 1)]

LifeObjects == {"a", "b"}

InitLife == InitWith(World, {LifeGeometry}, {<<"a", "c">>}, {1}, {2})

NextLife ==
    \/ DoBuild
    \/ \E physical \in LifeObjects : DoInsert(physical)
    \/ \E target \in LifeObjects : DoRemove(target)
    \/ \E hook \in Hooks({}) : DoUpdate(hook)

SpecLife == InitLife /\ [][NextLife]_vars

(***************************************************************************)
(* SpecCollect: the objects of SpecLife come and go before the first tick  *)
(* only (before tick MaxTicks), and the game loop keeps calling Update     *)
(***************************************************************************)
Tick == \E hook \in Hooks({}) : DoUpdate(hook)

NextCollect ==
    \/ ticks < MaxTicks /\ DoBuild
    \/ ticks < MaxTicks /\ \E physical \in LifeObjects : DoInsert(physical)
    \/ ticks < MaxTicks /\ \E target \in LifeObjects : DoRemove(target)
    \/ Tick

SpecCollect == InitLife /\ [][NextCollect]_vars /\ WF_vars(Tick)

(***************************************************************************)
(* SpecLifeTree: SpecLife with UpdateTree                                  *)
(***************************************************************************)
LifeLists == {<<"c">>, <<"a", "c">>}

NextLifeTree ==
    \/ NextLife
    \/ \E objects \in LifeLists : DoUpdateTree(objects)

SpecLifeTree == InitLife /\ [][NextLifeTree]_vars

(***************************************************************************)
(* SpecBuilt: trees made by CreateQuadtree and Build, with objects that    *)
(* straddle a midpoint of the root                                         *)
(***************************************************************************)
BuiltBoxes == {B(3, 0, 2, 1), B(3, 1, 2, 1), B(4, 0, 1, 1), B(0, 0, 1, 1)}

InitBuilt ==
    /\ box \in [Objects -> BuiltBoxes]
    /\ \E objects \in InitialObjects :
          /\ qt = Canon(Build(Work(Canon([p \in {Root} |->
                                     CreateQuadtree(World, 1, 2, objects, 1)]), box), Root).T)
          /\ present = {objects[k] : k \in 1..Len(objects)}
    /\ last = Op("Build", FALSE)
    /\ ticks = 0
    /\ since = [p \in {} |-> 0]

NextBuilt ==
    \/ DoBuild
    \/ \E physical \in Objects : DoInsert(physical)
    \/ \E target \in Objects : DoRemove(target)
    \/ ticks < MaxTicks /\ \E hook \in Hooks(BuiltBoxes) : DoUpdate(hook)

SpecBuilt == InitBuilt /\ [][NextBuilt]_vars

(***************************************************************************)
(* SpecQuery: Build, Insert, Remove and the query GetIntersectedObjects    *)
(***************************************************************************)
NextQuery ==
    \/ DoBuild
    \/ \E physical \in Objects : DoInsert(physical)
    \/ \E target \in Objects : DoRemove(target)
    \/ \E target \in Objects : DoGetIntersectedObjects(target)

SpecQuery == Init /\ [][NextQuery]_vars

(***************************************************************************)
(* SpecCap: the operations of Spec on trees with MaxLevels 0 and 1         *)
(***************************************************************************)
InitCap == InitWith(World, [Objects -> Boxes], InitialObjects, {1}, {0, 1})

SpecCap == InitCap /\ [][Next]_vars

(***************************************************************************)
(* SpecPrune: a is removed and stays away, and the hook of c may, in any   *)
(* tick, put c at the place a had or back at its own; a tree that is down  *)
(* to an empty root is not ticked any more                                 *)
(***************************************************************************)
PruneBoxes == {LifeGeometry[o] : o \in Objects}

PruneHooks == {hook \in Hooks(PruneBoxes) : \A o \in LifeObjects : ~hook.rep[o]}

NextPrune ==
    \/ DoBuild
    \/ DoRemove("a")
    \/ ~Empty(qt, Root) /\ \E hook \in PruneHooks : DoUpdate(hook)

SpecPrune == InitLife /\ [][NextPrune]_vars

(***************************************************************************)
(* SpecGrace: SpecPrune in which c may be removed too; the ticks stop when *)
(* the counter of an empty root has reached 0, from where an Update        *)
(* changes nothing in the tree                                             *)
(***************************************************************************)
NextGrace ==
    \/ DoBuild
    \/ \E target \in Objects : DoRemove(target)
    \/ /\ ~(Empty(qt, Root) /\ qt[Root].m_curLife = 0)
       /\ \E hook \in PruneHooks : DoUpdate(hook)

SpecGrace == InitLife /\ [][NextGrace]_vars

(***************************************************************************)
(* Vocabulary of the properties                                            *)
(***************************************************************************)
\* the places (node, position) at which object o is stored
Places(T, o) ==
    {pk \in UNION {{<<p, k>> : k \in 1..Len(T[p].m_Objects)} : p \in DOMAIN T} :
        T[pk[1]].m_Objects[pk[2]].obj = o}

StoredOnce(T) == \A o \in Objects : Cardinality(Places(T, o)) <= 1

\* the number of times each object occurs in a sequence of objects
BagOf(sq) ==
    [o \in {sq[k] : k \in 1..Len(sq)} |-> Cardinality({k \in 1..Len(sq) : sq[k] = o})]

(***************************************************************************)
(* C1  Containment invariant: every object stored directly at a node is    *)
(* contained by the Bounds of that node, and so by the Bounds of every     *)
(* ancestor of the node.                                                   *)
(***************************************************************************)
ContainmentInvariant ==
    \A p \in DOMAIN qt : \A k \in 1..Len(qt[p].m_Objects) :
        \A a \in DOMAIN qt :
            IsPrefix(a, p) => Contains(qt[a].Bounds, box[qt[p].m_Objects[k].obj])

(***************************************************************************)
(* C2  Straddle invariant: no object stored directly at a node that has an *)
(* active child is fully contained by one of the four quadrant rectangles  *)
(* of that node.                                                           *)
(***************************************************************************)
StraddleInvariant ==
    \A p \in DOMAIN qt :
        qt[p].m_ActiveNodes # 0 =>
            \A k \in 1..Len(qt[p].m_Objects) : \A i \in 0..3 :
                ~Contains(subBounds(qt[p], i), box[qt[p].m_Objects[k].obj])

(***************************************************************************)
(* C3  After any sequence of Insert and Remove calls the objects Walk      *)
(* visits are exactly the objects inserted and not yet removed, each once. *)
(***************************************************************************)
WalkIsPresent == ticks = 0 => BagOf(Walk(qt, Root)) = SetToBag(present)

WalkIsPresentWitness ==
    /\ ticks = 0
    /\ last = Op("Remove", TRUE)
    /\ qt[Root].m_ActiveNodes # 0
    /\ Cardinality(present) = 2

\* the objects stored somewhere in T
Held(T) == {o \in Objects : Places(T, o) # {}}

\* the unordered pairs of distinct stored objects that Intersect
IntersectingPairs(T, bx) ==
    {pr \in {{x, y} : x, y \in Held(T)} :
        Cardinality(pr) = 2 /\ \A x, y \in pr : x # y => Intersect(bx[x], bx[y])}

\* the records of GetIntersection(nil, nil), each as an unordered pair
ReportedPairs(T, bx) ==
    [k \in 1..Len(Intersections(T, bx)) |->
        {Intersections(T, bx)[k].One, Intersections(T, bx)[k].Another}]

(***************************************************************************)
(* C4  GetIntersection(nil, nil) on a tree that stores each object once    *)
(* returns exactly one record per unordered pair of distinct stored        *)
(* objects that Intersect, and no other record.                            *)
(***************************************************************************)
EachPairOnce ==
    StoredOnce(qt) => BagOf(ReportedPairs(qt, box)) = SetToBag(IntersectingPairs(qt, box))

\* two records, one of them for objects held in different subtrees
EachPairOnceWitness ==
    /\ StoredOnce(qt)
    /\ Len(Intersections(qt, box)) >= 2
    /\ \E k \in 1..Len(Intersections(qt, box)) :
          \E pa \in Places(qt, Intersections(qt, box)[k].One),
             pb \in Places(qt, Intersections(qt, box)[k].Another) :
                ~IsPrefix(pa[1], pb[1]) /\ ~IsPrefix(pb[1], pa[1])

(***************************************************************************)
(* C5  GetIntersectedObjects(O), for O stored in a tree that satisfies the *)
(* containment invariant, returns exactly the stored objects other than O  *)
(* that Intersect O, each once, wherever in the tree they are held.        *)
(***************************************************************************)
SingleTargetComplete ==
    (StoredOnce(qt) /\ ContainmentInvariant) =>
        \A O \in Held(qt) :
            BagOf(GetIntersectedObjects(qt, box, O))
                = SetToBag({P \in Held(qt) \ {O} : Intersect(box[O], box[P])})

(***************************************************************************)
(* C8  Remove(O) returns true iff O itself is stored somewhere in the tree;*)
(* when it returns true one occurrence of O and nothing else has been      *)
(* removed, when it returns false the tree is unchanged.                   *)
(***************************************************************************)
RemoveByIdentity ==
    [][\A target \in Objects :
          DoRemove(target) =>
             /\ last'.ret = (Places(qt, target) # {})
             /\ last'.ret =>
                   \A o \in Objects :
                      Cardinality(Places(qt', o)) =
                         Cardinality(Places(qt, o)) - (IF o = target THEN 1 ELSE 0)
             /\ ~last'.ret => qt' = qt]_vars

\* an object was removed while the objects still stored have its geometry
RemoveByIdentityWitness ==
    /\ last = Op("Remove", TRUE)
    /\ ticks = 0
    /\ Cardinality(present) = 2
    /\ Held(qt) = present
    /\ \A o1, o2 \in Objects : box[o1] = box[o2]

\* new is old, or old without one occurrence of target
WithoutOne(old, new, target) ==
    \/ new = old
    \/ \E k \in 1..Len(old) :
          /\ old[k] = target
          /\ new = SubSeq(old, 1, k - 1) \o SubSeq(old, k + 1, Len(old))

(***************************************************************************)
(* C9  Remove(O) changes nothing but the object list that held O: the set  *)
(* of nodes, every field of every node other than its list, and the order  *)
(* of the other objects stay as they were.                                 *)
(***************************************************************************)
RemoveFrame ==
    [][\A target \in Objects :
          DoRemove(target) =>
             /\ DOMAIN qt' = DOMAIN qt
             /\ \A p \in DOMAIN qt :
                   /\ [qt'[p] EXCEPT !.m_Objects = << >>] = [qt[p] EXCEPT !.m_Objects = << >>]
                   /\ WithoutOne(ObjsOf(qt[p].m_Objects), ObjsOf(qt'[p].m_Objects), target)
             /\ Cardinality({p \in DOMAIN qt :
                    ObjsOf(qt'[p].m_Objects) # ObjsOf(qt[p].m_Objects)}) <= 1]_vars

\* after a Remove, an emptied child is present and a node without direct objects has children
RemoveFrameWitness ==
    /\ last = Op("Remove", TRUE)
    /\ ticks = 0
    /\ \E p \in DOMAIN qt : p # Root /\ Empty(qt, p)
    /\ \E p \in DOMAIN qt : Len(qt[p].m_Objects) = 0 /\ qt[p].m_ActiveNodes # 0

\* FindObject returns a node that holds the object, and nil iff no node holds it
FindObjectOwner ==
    \A o \in Objects :
        LET sub == FindObject(qt, Root, o)
        IN  /\ sub # Nil =>
                 sub \in DOMAIN qt /\ \E k \in 1..Len(qt[sub].m_Objects) : qt[sub].m_Objects[k].obj = o
            /\ (sub = Nil) = (Places(qt, o) = {})

(***************************************************************************)
(* C10  FindObject(O) returns a node that holds O in its own list, returns *)
(* nil iff O is stored nowhere, and returns nil after a successful         *)
(* Remove(O) of an object that was stored once.                            *)
(***************************************************************************)
FindObjectContract ==
    /\ []FindObjectOwner
    /\ [][\A target \in Objects :
             (DoRemove(target) /\ last'.ret /\ Cardinality(Places(qt, target)) = 1) =>
                FindObject(qt', Root, target) = Nil]_vars

\* after a Remove one object is found two levels down, behind an earlier child of the root
FindObjectContractWitness ==
    /\ last = Op("Remove", TRUE)
    /\ \E o \in Objects : FindObject(qt, Root, o) = Nil
    /\ \E o \in Objects :
          LET sub == FindObject(qt, Root, o)
          IN  sub # Nil /\ Len(sub) = 2 /\ sub[1] # Head(ActiveIdx(qt[Root].m_ActiveNodes))

\* the closed boxes meet and their interiors are disjoint
Touching(a, b) ==
    /\ a.X <= b.X + b.Width /\ b.X <= a.X + a.Width
    /\ a.Y <= b.Y + b.Height /\ b.Y <= a.Y + a.Height
    /\ \/ a.X + a.Width <= b.X \/ b.X + b.Width <= a.X
       \/ a.Y + a.Height <= b.Y \/ b.Y + b.Height <= a.Y

(***************************************************************************)
(* C6  Touching is not intersecting: Intersect is false for two boxes of   *)
(* positive width and height whose interiors are disjoint and that share   *)
(* only an edge segment or a corner point.                                 *)
(***************************************************************************)
TouchingIsNotIntersecting ==
    [][\A one, another \in Objects :
          (DoIntersect(one, another) /\ Touching(box[one], box[another])) => ~last'.ret]_vars

(***************************************************************************)
(* C7  Grace period of 64: a child region with MaxLifespan 64 that a tick  *)
(* t left empty, and into which nothing is inserted afterwards, is present *)
(* after each of the ticks t+1 .. t+63 and is pruned during tick t+64.     *)
(***************************************************************************)
GracePeriod ==
    [][last'.op = "Update" =>
          \A p \in DOMAIN qt :
             (p # Root /\ p \in DOMAIN since) =>
                /\ since[p] + 1 < 64 => p \in DOMAIN qt'
                /\ since[p] + 1 = 64 => p \notin DOMAIN qt']_vars

\* the objects stored in the subtree of node p
SubtreeObjects(T, p) ==
    UNION {{T[q].m_Objects[k].obj : k \in 1..Len(T[q].m_Objects)} :
              q \in {r \in DOMAIN T : IsPrefix(p, r)}}

\* the box b lies fully inside quadrant i of node n
Fits(n, i, b) == Contains(subBounds(n, i), b)

(***************************************************************************)
(* C11  Lazy subdivision: Build applied to a childless node that holds     *)
(* more than MaxObjects objects below MaxLevels creates child i iff one of *)
(* the objects lies fully inside quadrant i, stores every such object in   *)
(* the subtree of child i, keeps exactly the objects that fit no quadrant  *)
(* and creates no child with an object-free subtree.                       *)
(***************************************************************************)
LazySubdivision ==
    [][(DoBuild /\ qt[Root].m_ActiveNodes = 0) =>
          \A p \in DOMAIN qt' :
             LET n == qt'[p]
                 got == SubtreeObjects(qt', p)
             IN  (Cardinality(got) > n.MaxObjects /\ n.Level < n.MaxLevels) =>
                    /\ \A i \in 0..3 :
                          (Append(p, i) \in DOMAIN qt') = (\E o \in got : Fits(n, i, box[o]))
                    /\ \A i \in 0..3 : \A o \in got :
                          Fits(n, i, box[o]) =>
                             /\ Append(p, i) \in DOMAIN qt'
                             /\ o \in SubtreeObjects(qt', Append(p, i))
                    /\ {n.m_Objects[k].obj : k \in 1..Len(n.m_Objects)}
                          = {o \in got : \A i \in 0..3 : ~Fits(n, i, box[o])}
                    /\ \A i \in 0..3 :
                          Append(p, i) \in DOMAIN qt' =>
                             SubtreeObjects(qt', Append(p, i)) # {}]_vars

\* the same for the node the public Build is called on, the root at the origin
LazySubdivisionAtRoot ==
    [][(DoBuild /\ qt[Root].m_ActiveNodes = 0) =>
          LET n == qt'[Root]
              got == SubtreeObjects(qt', Root)
          IN  (Cardinality(got) > n.MaxObjects /\ n.Level < n.MaxLevels) =>
                 /\ \A i \in 0..3 :
                       (<<i>> \in DOMAIN qt') = (\E o \in got : Fits(n, i, box[o]))
                 /\ {n.m_Objects[k].obj : k \in 1..Len(n.m_Objects)}
                       = {o \in got : \A i \in 0..3 : ~Fits(n, i, box[o])}]_vars

(***************************************************************************)
(* C13  Split threshold: Build on a node that holds at most MaxObjects     *)
(* objects, or that is at MaxLevels, changes nothing; Build on a childless *)
(* node below MaxLevels that holds MaxObjects+1 objects, one of which fits *)
(* a quadrant, subdivides the node.                                        *)
(***************************************************************************)
SplitThreshold ==
    [][DoBuild =>
          /\ (Len(qt[Root].m_Objects) <= qt[Root].MaxObjects
                 \/ qt[Root].Level >= qt[Root].MaxLevels) => qt' = qt
          /\ qt[Root].m_ActiveNodes = 0 =>
                \A p \in DOMAIN qt' :
                   LET n == qt'[p]
                       got == SubtreeObjects(qt', p)
                   IN  /\ (Cardinality(got) <= n.MaxObjects \/ n.Level >= n.MaxLevels) =>
                              n.m_ActiveNodes = 0
                       /\ (/\ n.Level < n.MaxLevels
                           /\ Cardinality(got) = n.MaxObjects + 1
                           /\ \E o \in got : \E i \in 0..3 : Fits(n, i, box[o])) =>
                              n.m_ActiveNodes # 0]_vars

\* the same for the node the public Build is called on, the root at the origin
SplitThresholdAtRoot ==
    [][DoBuild =>
          /\ (Len(qt[Root].m_Objects) <= qt[Root].MaxObjects
                 \/ qt[Root].Level >= qt[Root].MaxLevels) => qt' = qt
          /\ (/\ qt[Root].m_ActiveNodes = 0
              /\ qt[Root].Level < qt[Root].MaxLevels
              /\ Len(qt[Root].m_Objects) = qt[Root].MaxObjects + 1
              /\ \E k \in 1..Len(qt[Root].m_Objects) : \E i \in 0..3 :
                    Fits(qt[Root], i, box[qt[Root].m_Objects[k].obj])) =>
                 qt'[Root].m_ActiveNodes # 0]_vars

(***************************************************************************)
(* C12  Depth cap: every node has Level <= MaxLevels and a node at         *)
(* MaxLevels has no child, however many objects it holds; with MaxLevels 0 *)
(* the root never gets a child.                                            *)
(***************************************************************************)
DepthCap ==
    \A p \in DOMAIN qt :
        /\ qt[p].Level <= qt[p].MaxLevels
        /\ qt[p].Level = qt[p].MaxLevels =>
              /\ qt[p].m_ActiveNodes = 0
              /\ \A i \in 0..3 : Append(p, i) \notin DOMAIN qt

\* Build was called on a root at MaxLevels 0 that holds three objects
DepthCapWitness ==
    /\ last.op = "Build"
    /\ qt[Root].MaxLevels = 0
    /\ Len(qt[Root].m_Objects) = 3
    /\ \E k \in 1..3 : \E i \in 0..3 : Fits(qt[Root], i, box[qt[Root].m_Objects[k].obj])

(***************************************************************************)
(* C14  Insert of an object that straddles a midpoint of a node that has a *)
(* child appends the object to the list of that node: no child is created, *)
(* no other object moves and nothing is rebuilt, even when the node then   *)
(* holds more than MaxObjects objects.                                     *)
(***************************************************************************)
StraddlerStays ==
    [][\A physical \in Objects :
          LET p == InsertNode(qt, box, Root, physical)
          IN  (/\ DoInsert(physical)
               /\ p \in DOMAIN qt
               /\ qt[p].m_ActiveNodes # 0
               /\ \A i \in 0..3 : ~Fits(qt[p], i, box[physical])) =>
                 /\ DOMAIN qt' = DOMAIN qt
                 /\ \A q \in DOMAIN qt \ {p} : qt'[q] = qt[q]
                 /\ ObjsOf(qt'[p].m_Objects) = Append(ObjsOf(qt[p].m_Objects), physical)
                 /\ [qt'[p] EXCEPT !.m_Objects = << >>] = [qt[p] EXCEPT !.m_Objects = << >>]]_vars

\* after an Insert a node with a child holds more than MaxObjects objects, the last of
\* them a straddler
StraddlerStaysWitness ==
    /\ last.op = "Insert"
    /\ ticks = 0
    /\ \E p \in DOMAIN qt :
          LET l == qt[p].m_Objects
          IN  /\ qt[p].m_ActiveNodes # 0
              /\ Len(l) > qt[p].MaxObjects
              /\ Contains(qt[p].Bounds, box[l[Len(l)].obj])
              /\ \A i \in 0..3 : ~Fits(qt[p], i, box[l[Len(l)].obj])

\* tree T with object o appended to the list of node p
Appended(T, p, o) == [T EXCEPT ![p].m_Objects = Append(@, Elem(o, FirstFree(T)))]

(***************************************************************************)
(* C15  Insert of O into a node without children appends O to the list of  *)
(* the node; if the node then holds more than MaxObjects objects below     *)
(* MaxLevels its subtree is what Build makes of the list with O appended,  *)
(* otherwise the node stays childless with O as its last object.           *)
(***************************************************************************)
LeafInsert ==
    [][\A physical \in Objects :
          LET p == InsertNode(qt, box, Root, physical)
              T1 == Appended(qt, p, physical)
          IN  DoInsert(physical) =>
                 /\ (p \in DOMAIN qt /\ qt[p].m_ActiveNodes = 0) =>
                       IF Len(T1[p].m_Objects) > qt[p].MaxObjects /\ qt[p].Level < qt[p].MaxLevels
                       THEN qt' = Canon(Build(Work(T1, box), p).T)
                       ELSE qt' = Canon(T1)
                 /\ p \notin DOMAIN qt =>
                       /\ p \in DOMAIN qt'
                       /\ qt'[p].m_ActiveNodes = 0
                       /\ \A i \in 0..3 : Append(p, i) \notin DOMAIN qt'
                       /\ ObjsOf(qt'[p].m_Objects) = <<physical>>]_vars

\* after an Insert two objects are held by a child of the root and by a child of that child
LeafInsertWitness ==
    /\ last.op = "Insert"
    /\ ticks = 0
    /\ Cardinality(present) = 2
    /\ Len(qt[Root].m_Objects) = 0
    /\ \E i, j \in 0..3 :
          /\ DOMAIN qt = {Root, <<i>>, <<i, j>>}
          /\ Len(qt[<<i>>].m_Objects) = 1
          /\ Len(qt[<<i, j>>].m_Objects) = 1

(***************************************************************************)
(* C16  Between public operations bit i of a node's active mask is set iff *)
(* child slot i of the node is non-nil.                                    *)
(***************************************************************************)
ActiveMask ==
    \A p \in DOMAIN qt : \A i \in 0..3 :
        Bit(qt[p].m_ActiveNodes, i) = (Append(p, i) \in DOMAIN qt)

\* an Update has pruned child 0 of the root and left child 1
ActiveMaskWitness ==
    /\ last.op = "Update"
    /\ <<1>> \in DOMAIN qt
    /\ <<0>> \notin DOMAIN qt

(***************************************************************************)
(* C17  Build is idempotent: on a tree made by CreateQuadtree and Build,   *)
(* and on any tree reached from it by Insert, Remove and Update, a further *)
(* Build on the root changes nothing.                                      *)
(***************************************************************************)
BuildIdempotent == [][DoBuild => qt' = qt]_vars

\* Build was called after an Update on a root that has a child and holds more than
\* MaxObjects objects
BuildIdempotentWitness ==
    /\ last.op = "Build"
    /\ ticks = 1
    /\ qt[Root].m_ActiveNodes # 0
    /\ Len(qt[Root].m_Objects) > qt[Root].MaxObjects

(***************************************************************************)
(* C18  Insert/Remove round trip: after Insert(O) of an object that was    *)
(* not in the tree, Remove(O) returns true and leaves every other object   *)
(* as often as before the Insert, each in the node that held it or in a    *)
(* descendant of that node, and no node that existed before is missing.    *)
(***************************************************************************)
RoundTrip ==
    [][\A O \in Objects :
          (DoInsert(O) /\ Places(qt, O) = {}) =>
             LET r == Remove(qt', Root, O)
             IN  /\ r.removed
                 /\ DOMAIN qt \subseteq DOMAIN r.T
                 /\ \A o \in Objects :
                       /\ Cardinality(Places(r.T, o)) = Cardinality(Places(qt, o))
                       /\ \A old \in Places(qt, o) : \E new \in Places(r.T, o) :
                             IsPrefix(old[1], new[1])
                       /\ \A new \in Places(r.T, o) : \E old \in Places(qt, o) :
                             IsPrefix(old[1], new[1])]_vars

\* an Insert has put two objects into one node two levels below the root, in a tree of
\* three nodes
RoundTripWitness ==
    /\ last.op = "Insert"
    /\ ticks = 0
    /\ Cardinality(present) = 2
    /\ \E i, j \in 0..3 :
          /\ DOMAIN qt = {Root, <<i>>, <<i, j>>}
          /\ Len(qt[<<i, j>>].m_Objects) = 2

\* the objects GetIntersectedObjects(O) returns
IntersectedSet(T, bx, O) ==
    {GetIntersectedObjects(T, bx, O)[k] : k \in 1..Len(GetIntersectedObjects(T, bx, O))}

(***************************************************************************)
(* C19  GetIntersectedObjects is symmetric: for two distinct objects O and *)
(* P stored in the tree, P is in GetIntersectedObjects(O) iff O is in      *)
(* GetIntersectedObjects(P).                                               *)
(***************************************************************************)
IntersectedSymmetric ==
    \A O, P \in Held(qt) :
        O # P => ((P \in IntersectedSet(qt, box, O)) = (O \in IntersectedSet(qt, box, P)))

(***************************************************************************)
(* C20  GetIntersectedObjects(O) for an object O that is not stored in the *)
(* tree returns an empty result and leaves the tree unchanged, even when   *)
(* objects in the tree intersect the box of O.                             *)
(***************************************************************************)
AbsentTargetEmpty ==
    [][\A target \in Objects :
          (DoGetIntersectedObjects(target) /\ Places(qt, target) = {}) =>
             /\ last'.ret
             /\ qt' = qt
             /\ box' = box]_vars

\* the query returned no object in a tree in which the query for any stored object
\* returns one, and in which every object that is not stored intersects a stored one
AbsentTargetEmptyWitness ==
    /\ last = Op("GetIntersectedObjects", TRUE)
    /\ Held(qt) # {}
    /\ Held(qt) # Objects
    /\ \A P \in Held(qt) : GetIntersectedObjects(qt, box, P) # << >>
    /\ \A O \in Objects \ Held(qt) : \E P \in Held(qt) : Intersect(box[O], box[P])

(***************************************************************************)
(* C21  Within one root Update call the Update hook of every object that   *)
(* is in the tree when the call begins is invoked exactly once, also for   *)
(* an object that the call reparents into a node that is updated later in  *)
(* the same call.                                                          *)
(***************************************************************************)
HookOnce ==
    (StoredOnce(qt) /\ ticks < MaxTicks) =>
        \A hook \in Hooks(Boxes) : \A o \in Held(qt) :
            Update(Work(qt, box), Root, hook).calls[o] = 1

(***************************************************************************)
(* C23  Update never duplicates an object: when every object is stored     *)
(* exactly once as a root Update call begins, no object is stored at more  *)
(* than one place when it returns, also when the re-insertion of one mover *)
(* makes its node subdivide while other movers of that node still wait.    *)
(***************************************************************************)
UpdateKeepsOnce ==
    [][(last'.op = "Update" /\ StoredOnce(qt)) => StoredOnce(qt')]_vars

(***************************************************************************)
(* C22  Step 5 of Update drops only children that have no direct objects   *)
(* and no active children, so no object leaves the tree through pruning:   *)
(* every object stored in the tree when a root Update call begins is       *)
(* stored in it when the call returns, also an object reparented into a    *)
(* child in the tick in which that child's counter reached 0.              *)
(***************************************************************************)
PruneLosesNothing ==
    [][last'.op = "Update" => Held(qt) \subseteq Held(qt')]_vars

(***************************************************************************)
(* C24  A child node that has a direct object or an active child when a    *)
(* root Update call begins still exists when the call returns: a region    *)
(* is pruned only in a tick that it entered already empty.                 *)
(***************************************************************************)
NonEmptySurvives ==
    [][last'.op = "Update" =>
          \A p \in DOMAIN qt \ {Root} : ~Empty(qt, p) => p \in DOMAIN qt']_vars

\* an Update has just emptied a child, which is still there and not yet counting down
NonEmptySurvivesWitness ==
    /\ last.op = "Update"
    /\ \E p \in DOMAIN qt \ {Root} : Empty(qt, p) /\ qt[p].m_curLife = -1

(***************************************************************************)
(* C25  Rescue: a node that enters Update with CurLife other than -1 and   *)
(* with a direct object or an active child has CurLife -1 when that        *)
(* Update call returns.                                                    *)
(***************************************************************************)
Rescue ==
    [][last'.op = "Update" =>
          \A p \in DOMAIN qt \cap DOMAIN qt' :
              (qt[p].m_curLife # -1 /\ ~Empty(qt, p)) => qt'[p].m_curLife = -1]_vars

(***************************************************************************)
(* C26  Each node's MaxLifespan is 64 or 128: it changes only in an Update *)
(* that rescues the node (CurLife other than -1 while the node holds       *)
(* objects, CurLife -1 afterwards), and only from 64 to 128, so a node is  *)
(* doubled at most once.                                                   *)
(***************************************************************************)
DoubledOnce ==
    [][/\ \A p \in DOMAIN qt' : qt'[p].m_maxLifespan \in {64, 128}
       /\ \A p \in DOMAIN qt \cap DOMAIN qt' :
             qt'[p].m_maxLifespan # qt[p].m_maxLifespan =>
                 /\ last'.op = "Update"
                 /\ qt[p].m_curLife # -1
                 /\ Len(qt[p].m_Objects) > 0
                 /\ qt'[p].m_curLife = -1
                 /\ qt[p].m_maxLifespan = 64
                 /\ qt'[p].m_maxLifespan = 128]_vars

\* a node that a rescue has doubled, counting down again and holding an object again:
\* the next Update rescues it a second time
DoubledOnceWitness ==
    \E p \in DOMAIN qt :
        /\ qt[p].m_maxLifespan = 128
        /\ qt[p].m_curLife > 0
        /\ Len(qt[p].m_Objects) > 0

(***************************************************************************)
(* C27  An object whose box, after its Update hook ran, is not contained   *)
(* by the root bounds is neither dropped nor pushed into a child: when the *)
(* root Update call returns it is stored exactly once, directly in the     *)
(* root's object list.                                                     *)
(***************************************************************************)
OutsideStaysAtRoot ==
    [][last'.op = "Update" =>
          \A o \in Held(qt) :
              ~Contains(qt'[Root].Bounds, box'[o]) =>
                  /\ Cardinality(Places(qt', o)) = 1
                  /\ \A pk \in Places(qt', o) : pk[1] = Root]_vars

(***************************************************************************)
(* C28  Eventual collection: if from some point on no object moves and no  *)
(* Insert or Remove is called, then after finitely many root Update ticks  *)
(* every non-root node has an object in its subtree, the root is present,  *)
(* and further ticks leave the set of nodes unchanged.                     *)
(***************************************************************************)
Collected ==
    /\ Root \in DOMAIN qt
    /\ \A p \in DOMAIN qt \ {Root} : SubtreeObjects(qt, p) # {}

\* a further tick in which nothing moves leaves the set of nodes as it is
Settled == \A hook \in Hooks({}) : DOMAIN Update(Work(qt, box), Root, hook).T = DOMAIN qt

EventualCollection == <>[](Collected /\ Settled)

\* the ticks have pruned the region of a and b, and the tree has settled
EventualCollectionWitness ==
    /\ last.op = "Update"
    /\ Collected
    /\ Settled
    /\ <<1>> \in DOMAIN qt
    /\ <<0>> \notin DOMAIN qt

(***************************************************************************)
(* C29  GetIntersection as implemented, with one potential list shared     *)
(* and never truncated across sibling subtrees, emits the same multiset    *)
(* of unordered pairs as the variant that snapshots the potential list     *)
(* before descending into each child and restores it afterwards.           *)
(***************************************************************************)
RECURSIVE SnapshotIntersection(_, _, _, _), SnapshotNodes(_, _, _, _, _)

\* the loop over the children of the variant: each child starts from the list R holds
SnapshotNodes(T, bx, p, R, idxs) ==
    IF idxs = << >> THEN R
    ELSE LET R1 == SnapshotIntersection(T, bx, Append(p, Head(idxs)), R)
         IN  SnapshotNodes(T, bx, p,
                 [intersections |-> R1.intersections, potentialObjects |-> R.potentialObjects],
                 Tail(idxs))

SnapshotIntersection(T, bx, p, R) ==
    SnapshotNodes(T, bx, p, GetIntersectionObjects(T[p].m_Objects, bx, R),
                  ActiveIdx(T[p].m_ActiveNodes))

\* the unordered pairs of a list of intersection records, in order
PairsOf(records) == [k \in 1..Len(records) |-> {records[k].One, records[k].Another}]

SharedListEquivalent ==
    BagOf(PairsOf(Intersections(qt, box))) =
        BagOf(PairsOf(SnapshotIntersection(qt, box, Root,
                  [intersections |-> << >>, potentialObjects |-> << >>]).intersections))

(***************************************************************************)
(* C30  Structural invariant: every child C at index i of a node N has     *)
(* Level N.Level + 1, parent reference N, N's MaxObjects and MaxLevels,    *)
(* and as Bounds quadrant i of N's Bounds (0 top-left, 1 top-right,        *)
(* 2 bottom-left, 3 bottom-right, each of half the width and half the      *)
(* height), whether Build or Insert created it; the root has Level 0 and   *)
(* no parent.                                                              *)
(***************************************************************************)
Quadrant(b, i) ==
    B(b.X + (i % 2) * Half(b.Width), b.Y + (i \div 2) * Half(b.Height),
      Half(b.Width), Half(b.Height))

Structure ==
    /\ qt[Root].Level = 0
    /\ qt[Root].m_parent = Nil
    /\ \A p \in DOMAIN qt : \A i \in 0..3 :
          (Bit(qt[p].m_ActiveNodes, i) /\ Append(p, i) \in DOMAIN qt) =>
              LET N == qt[p]
                  C == qt[Append(p, i)]
              IN  /\ C.Level = N.Level + 1
                  /\ C.m_parent = p
                  /\ C.MaxObjects = N.MaxObjects
                  /\ C.MaxLevels = N.MaxLevels
                  /\ C.Bounds = Quadrant(N.Bounds, i)

\* an Insert into a tree without objects has gone down the root's classification
\* branch (lines 275-326) into a child of the root, next to a subtree that Build made
StructureWitness ==
    /\ last.op = "Insert"
    /\ Cardinality(UNION {Places(qt, o) : o \in Objects}) = 1
    /\ \E p \in DOMAIN qt : Len(p) = 2
    /\ \E p \in DOMAIN qt : Len(p) = 1 /\ Len(qt[p].m_Objects) = 1 /\ qt[p].m_ActiveNodes = 0

(***************************************************************************)
(* C31  Grace-counter invariant: between public operations every node's    *)
(* CurLife is -1 or lies in 0 .. MaxLifespan-1, and no node other than the *)
(* root has CurLife 0: a child whose counter reaches 0 is removed before   *)
(* the root Update call that brought it to 0 returns.                      *)
(***************************************************************************)
GraceCounter ==
    \A p \in DOMAIN qt :
        /\ qt[p].m_curLife = -1 \/ qt[p].m_curLife \in 0..(qt[p].m_maxLifespan - 1)
        /\ p # Root => qt[p].m_curLife # 0

\* the ticks have pruned the last child of the root and then brought the root itself to 0
GraceCounterWitness ==
    /\ last.op = "Update"
    /\ DOMAIN qt = {Root}
    /\ qt[Root].m_curLife = 0
    /\ Root \in DOMAIN since

====
